---- MODULE Spec2Model ----
(***************************************************************************)
(* A model of util/interfacedb.py: the credential resolver (get_access),   *)
(* the connection factory (setup_lbnl) and the three adapters in front of  *)
(* the time-series store (database, database_forecast, database_generic).  *)
(*                                                                         *)
(* Measurement names are sequences of one-character strings, so that the   *)
(* chained str.replace calls of the name normalisation are computed and    *)
(* not assumed.  Time is counted in half hours: one hour is Hour units.    *)
(* Values are tagged records, so that a number, a missing value (NaN), a   *)
(* null (None) and a formatted date never compare as the same thing.       *)
(***************************************************************************)
EXTENDS Integers, Sequences, FiniteSets, TLC

VARIABLES
    df,       \* the caller's table (a pandas DataFrame), renamed in place by a write
    store,    \* the store's points: <<database, measurement, time>> -> field map
    sent,     \* the records the last call handed to the store client
    call,     \* the last call made, with its arguments
    wrote,    \* the last write_data call made, with its arguments as passed
    ret,      \* what the last call returned or raised
    access,   \* the credential file access.config: existence, mode, lines
    db_list   \* the databases of the server, as get_list_database lists them

vars == <<df, store, sent, call, wrote, ret, access, db_list>>

(***************************************************************************)
(* Bounds of the model.                                                    *)
(***************************************************************************)
MaxNameLen == 3

(***************************************************************************)
(* Values.                                                                 *)
(***************************************************************************)
Num(n) == [num |-> n]
NaN == [nan |-> TRUE]
None == [none |-> TRUE]

IsNum(v) == DOMAIN v = {"num"}

(***************************************************************************)
(* Names and the name normalisation.                                       *)
(***************************************************************************)
Chars == {"a", "-", "#", "/", " ", "_"}

NameStrings == UNION {[1..k -> Chars] : k \in 0..MaxNameLen}

\* str.replace(old, new) for a one-character old; new is a string, possibly empty.
RECURSIVE replace(_, _, _)
replace(s, old, new) ==
    IF s = <<>> THEN <<>>
    ELSE (IF Head(s) = old THEN new ELSE <<Head(s)>>) \o replace(Tail(s), old, new)

\* A slip in the replacement character of '/': the result may hold a '-'.
compatible_names_slash_to_dash(key) ==
    replace(replace(replace(replace(key, "-", <<"_">>), "#", <<>>), "/", <<"-">>), " ", <<"_">>)

\* The conversion of write_data (both adapters): four replacements.
compatible_names_write(key) ==
    replace(replace(replace(replace(key, "-", <<"_">>), "#", <<>>), "/", <<"_">>), " ", <<"_">>)

\* The conversion of get_data and drop_measurement: three replacements, no space.
compatible_names_read(key) ==
    replace(replace(replace(key, "-", <<"_">>), "#", <<>>), "/", <<"_">>)

(***************************************************************************)
(* Idle values of the variables a specification does not use.              *)
(***************************************************************************)
NoTable == [columns |-> <<>>, index |-> <<>>, data |-> <<>>]
NoStore == <<>>
NoAccess == [exists |-> FALSE, mode |-> 0, lines |-> <<>>]
NoCall == [op |-> "none"]
NoRet == [kind |-> "none"]
NoDatabases == <<>>

(***************************************************************************)
(* The name normalisation as a function of its input: applied once, then   *)
(* applied to its own result.                                              *)
(***************************************************************************)
InitNorm ==
    /\ df = NoTable /\ store = NoStore /\ sent = <<>> /\ access = NoAccess /\ db_list = NoDatabases
    /\ call = NoCall /\ wrote = NoCall
    /\ ret = NoRet

Normalize ==
    /\ call.op = "none"
    /\ \E key \in NameStrings :
        /\ call' = [op |-> "normalize", key |-> key]
        /\ ret' = [kind |-> "name", name |-> compatible_names_write(key)]
    /\ UNCHANGED <<df, store, sent, wrote, access, db_list>>

Renormalize ==
    /\ call.op = "normalize"
    /\ call' = [op |-> "renormalize", key |-> ret.name]
    /\ ret' = [kind |-> "name", name |-> compatible_names_write(ret.name)]
    /\ UNCHANGED <<df, store, sent, wrote, access, db_list>>

NextNorm == Normalize \/ Renormalize

SpecNorm == InitNorm /\ [][NextNorm]_vars

\* C6: the four-step normaliser is idempotent: applied to its own result, it
\* returns that result unchanged, for every name over the alphabet.
NormalizeIdempotent ==
    call.op = "renormalize" => ret.name = call.key

\* A name that the first application changed (by a replacement and by the
\* removal of '#') has been normalised a second time.
NormalizeIdempotentWitness ==
    /\ call.op = "renormalize"
    /\ call.key = <<"_", "a", "_">>
    /\ ret.name = <<"_", "a", "_">>

(***************************************************************************)
(* The credential file and get_access.                                     *)
(***************************************************************************)
MaxLines == 2

\* bytes.hex of a string, and bytes.fromhex(..).decode('utf-8') back.
Hex(s) == [hex |-> s]
fromhex_decode(h) == h.hex

SourceIds == {"IDBC", "wifi", "other"}
Credentials == {<<"user1", "pass1">>, <<"user2", "pass2">>}

\* One line of access.config: hex(source_id),hex(username),hex(password).
AccessLines == {<<Hex(s), Hex(c[1]), Hex(c[2])>> : s \in SourceIds, c \in Credentials}

AccessContents == UNION {[1..k -> AccessLines] : k \in 0..MaxLines}

\* Permission bits of the file, owner-read-only among them.
Modes == {\o400, \o600, \o644, \o444, \o440, \o420, \o404, \o500, \o410,
          \o401, \o700, \o777, \o200, \o000, \o1400}

AccessFiles ==
    {[exists |-> e, mode |-> m, lines |-> l] :
        e \in BOOLEAN, m \in Modes, l \in AccessContents}

\* x & y on naturals.
RECURSIVE BitAnd(_, _)
BitAnd(x, y) ==
    IF x = 0 \/ y = 0 THEN 0
    ELSE (x % 2) * (y % 2) + 2 * BitAnd(x \div 2, y \div 2)

\* The octal digits of n, most significant first.
RECURSIVE OctDigits(_)
OctDigits(n) ==
    IF n < 8 THEN <<n>> ELSE Append(OctDigits(n \div 8), n % 8)

\* oct(n): the prefix '0o' and the octal digits.
oct(n) == [prefix |-> "0o", digits |-> OctDigits(n)]

\* os.stat(..)[stat.ST_MODE] of a regular file: S_IFREG and the permission bits.
ST_MODE(file) == \o100000 + file.mode

\* The permission test: the mode masked with decimal 777 prints as '0o400'.
permissions_ok(file) ==
    oct(BitAnd(ST_MODE(file), 777)) = [prefix |-> "0o", digits |-> <<4, 0, 0>>]

Unbound == [unbound |-> TRUE]

\* The search loop: the first matching line is kept and the loop left; a line
\* that does not match sets args to None; args is unbound before the first line.
RECURSIVE search_lines(_, _, _)
search_lines(lines, source, args) ==
    IF lines = <<>> THEN args
    ELSE IF fromhex_decode(Head(lines)[1]) = source
         THEN [line |-> Head(lines)]
         ELSE search_lines(Tail(lines), source, None)

Raise(exc, denied) == [kind |-> "raise", exc |-> exc, denied |-> denied]

\* get_access(source) against the file: a (username, password) pair or an error.
\* denied marks the two errors raised with an 'Access denied.' message.
get_access(file, source) ==
    IF ~file.exists \/ ~permissions_ok(file)
    THEN Raise("IOError", TRUE)
    ELSE LET args == search_lines(file.lines, source, Unbound) IN
         IF args = Unbound THEN Raise("UnboundLocalError", FALSE)
         ELSE IF args = None THEN Raise("ValueError", TRUE)
         ELSE [kind |-> "credentials",
               user_name |-> fromhex_decode(args.line[2]),
               password |-> fromhex_decode(args.line[3])]

(***************************************************************************)
(* setup_lbnl.                                                             *)
(***************************************************************************)
\* A style argument: None, or a string object.  literal tells whether the
\* object is the interned constant that the literals of the module denote;
\* a string built or read at run time is an equal but different object.
NoStyle == [none |-> TRUE]
Styles ==
    {NoStyle} \cup
    {[str |-> s, literal |-> b] : s \in {"forecasts", "generic", "plain"}, b \in BOOLEAN}

\* "style is '<s>'": identity with the literal of the module.
is_literal(style, s) ==
    style # NoStyle /\ style.str = s /\ style.literal

DatabaseNames == {"wifi", "building59", "building90"}

setup_lbnl(file, databaseName, style) ==
    IF databaseName \notin {"wifi", "building59"}
    THEN Raise("NameError", FALSE)
    ELSE LET host == IF databaseName = "wifi" THEN "eln-data-store.lbl.gov"
                     ELSE "mpcdata.lbl.gov"
             port == IF databaseName = "wifi" THEN 9003 ELSE 8086
             dbname == IF databaseName = "wifi" THEN "wifi" ELSE "dhblum"
             got == get_access(file, IF databaseName = "wifi" THEN "wifi" ELSE "IDBC")
             class == IF style = NoStyle THEN "database"
                      ELSE IF is_literal(style, "forecasts") THEN "database_forecast"
                      ELSE IF is_literal(style, "generic") THEN "database_generic"
                      ELSE "unknown"
         IN  IF got.kind = "raise" THEN got
             ELSE IF class = "unknown" THEN Raise("ValueError", FALSE)
             ELSE [kind |-> "connection",
                   db |-> [class |-> class, host |-> host, port |-> port,
                           database |-> "dhblum", user |-> got.user_name,
                           password |-> got.password, ssl |-> TRUE,
                           verify_ssl |-> TRUE],
                   dbname |-> dbname]

InitCred ==
    /\ df = NoTable /\ store = NoStore /\ sent = <<>>
    /\ access \in AccessFiles /\ db_list = NoDatabases
    /\ call = NoCall /\ wrote = NoCall
    /\ ret = NoRet

GetAccess ==
    /\ \E source \in SourceIds :
        /\ call' = [op |-> "get_access", source |-> source]
        /\ ret' = get_access(access, source)
    /\ UNCHANGED <<df, store, sent, wrote, access, db_list>>

SetupLbnl ==
    /\ \E databaseName \in DatabaseNames, style \in Styles :
        /\ call' = [op |-> "setup_lbnl", databaseName |-> databaseName, style |-> style]
        /\ ret' = setup_lbnl(access, databaseName, style)
    /\ UNCHANGED <<df, store, sent, wrote, access, db_list>>

NextCred == GetAccess \/ SetupLbnl

SpecCred == InitCred /\ [][NextCred]_vars

\* C2: get_access returns no username/password pair from a credential file
\* whose permission bits are anything but owner-read-only (0o400).
NoCredentialsUnlessOwnerReadOnly ==
    (call.op = "get_access" /\ ret.kind = "credentials") => access.mode = \o400

\* The first line of the file whose decoded source_id is source, 0 if none.
FirstMatch(lines, source) ==
    IF \E i \in 1..Len(lines) : lines[i][1] = Hex(source)
    THEN CHOOSE i \in 1..Len(lines) :
            /\ lines[i][1] = Hex(source)
            /\ \A j \in 1..(i - 1) : lines[j][1] # Hex(source)
    ELSE 0

\* C8: over a file with mode 0o400, get_access returns the username and password
\* of the first matching line, and fails with an access-denied error when no
\* line matches, the empty file included.
LookupFirstMatchOrDenied ==
    (call.op = "get_access" /\ access.exists /\ access.mode = \o400) =>
        LET i == FirstMatch(access.lines, call.source) IN
        IF i = 0
        THEN ret.kind = "raise" /\ ret.denied
        ELSE /\ ret.kind = "credentials"
             /\ Hex(ret.user_name) = access.lines[i][2]
             /\ Hex(ret.password) = access.lines[i][3]

\* The class setup_lbnl is asked for, by the value of style.
RequestedClass(style) ==
    IF style = NoStyle THEN "database"
    ELSE IF style.str = "forecasts" THEN "database_forecast"
    ELSE IF style.str = "generic" THEN "database_generic"
    ELSE "unknown"

\* C9: setup_lbnl raises NameError for a deployment outside the registry; for
\* a known deployment whose credentials resolve it raises ValueError for a style
\* other than None, 'forecasts' and 'generic', and otherwise returns the adapter
\* of the requested style with the deployment's database name.
ConnectOutcome ==
    call.op = "setup_lbnl" =>
        IF call.databaseName \notin {"wifi", "building59"}
        THEN ret.kind = "raise" /\ ret.exc = "NameError"
        ELSE LET source == IF call.databaseName = "wifi" THEN "wifi" ELSE "IDBC" IN
             get_access(access, source).kind = "credentials" =>
                IF RequestedClass(call.style) = "unknown"
                THEN ret.kind = "raise" /\ ret.exc = "ValueError"
                ELSE /\ ret.kind = "connection"
                     /\ ret.db.class = RequestedClass(call.style)
                     /\ ret.dbname = (IF call.databaseName = "wifi" THEN "wifi" ELSE "dhblum")


(***************************************************************************)
(* Tables (pandas DataFrames) and the store.                               *)
(***************************************************************************)
MaxCols == 2
MaxRows == 2

\* Caller-facing column names: plain ones and one with each replaced character.
ColumnNames == {<<"a", "a">>} \cup {<<"a", c, "a">> : c \in Chars \ {"a"}}

\* The logical database the calls name.
Databases == {"dhblum"}

\* The sequences of 1..n distinct elements of S.
DistinctSeqs(S, n) ==
    UNION {{q \in [1..k -> S] : \A i, j \in 1..k : i # j => q[i] # q[j]} : k \in 1..n}

\* The tables of 1..cols columns named from names, over one of the indexes,
\* with cells from cells.  data[i][r] is the cell of column i in row r.
Tables(names, cols, indexes, cells) ==
    UNION {UNION {
        {[columns |-> c, index |-> x, data |-> d] :
            d \in [1..Len(c) -> [1..Len(x) -> cells]]}
        : c \in DistinctSeqs(names, cols)} : x \in indexes}

\* A formatted time, 'YYYY-mm-dd HH:MM:SS', and the time it is parsed as.
strftime(t) == [datestr |-> t]
to_datetime(d) == d.datestr

\* A measurement name the query language reads unquoted: letters and '_'.
is_identifier(key) ==
    key # <<>> /\ \A i \in 1..Len(key) : key[i] \in {"a", "_"}

\* One point written: the fields given replace those of the same names in the
\* point at the same database, measurement and time, and the others are kept.
write_point(st, dbname, measurement, time, fields) ==
    LET k == <<dbname, measurement, time>>
        old == IF k \in DOMAIN st THEN st[k] ELSE <<>>
        new == [f \in DOMAIN old \cup DOMAIN fields |->
                    IF f \in DOMAIN fields THEN fields[f] ELSE old[f]]
    IN  [x \in DOMAIN st \cup {k} |-> IF x = k THEN new ELSE st[x]]

\* The times of the points of a measurement between two times, both included.
points_in_range(st, dbname, measurement, from, to) ==
    {k[3] : k \in {x \in DOMAIN st :
        x[1] = dbname /\ x[2] = measurement /\ x[3] >= from /\ x[3] <= to}}

\* The field names SELECT * returns as columns: every field of the measurement;
\* a point that lacks one of them has a null there.
field_keys(st, dbname, measurement) ==
    UNION {DOMAIN st[k] : k \in {x \in DOMAIN st : x[1] = dbname /\ x[2] = measurement}}

\* The elements of a finite set of integers in increasing order.
RECURSIVE sorted(_)
sorted(S) ==
    IF S = {} THEN <<>>
    ELSE LET m == CHOOSE x \in S : \A y \in S : x <= y
         IN  <<m>> \o sorted(S \ {m})

(***************************************************************************)
(* database.write_data and database.get_data.                              *)
(***************************************************************************)
\* df.rename(columns=columns, inplace=True) with the converted names.
rename_columns(t, compatible_names) ==
    IF compatible_names
    THEN [t EXCEPT !.columns = [i \in DOMAIN t.columns |-> compatible_names_write(t.columns[i])]]
    ELSE t

\* df[key] is a Series when one column has the name key, a DataFrame otherwise.
is_series(t, key) ==
    Cardinality({i \in DOMAIN t.columns : t.columns[i] = key}) = 1

\* DataFrameClient.write_points of the rows of column i that hold a value:
\* one point per row, with one field named after the column.
RECURSIVE write_frame(_, _, _, _, _)
write_frame(st, t, i, dbname, r) ==
    IF r > Len(t.index) THEN st
    ELSE write_frame(
            IF IsNum(t.data[i][r])
            THEN write_point(st, dbname, t.columns[i], t.index[r],
                             [f \in {t.columns[i]} |-> t.data[i][r]])
            ELSE st,
            t, i, dbname, r + 1)

\* A column fails (TypeError) when dropna leaves it no row.
all_nan(t, i) == \A r \in 1..Len(t.index) : ~IsNum(t.data[i][r])

\* The flag after a column is written: "if flag == -1: flag = -1".
flag_after_write(flag) == flag

\* The loop over the columns, from column i on: the store and the flag at the
\* end, or the error that ends the call.
RECURSIVE store_columns(_, _, _, _, _)
store_columns(t, dbname, i, st, flag) ==
    IF i > Len(t.columns) THEN [store |-> st, ret |-> [kind |-> "flag", flag |-> flag]]
    ELSE IF ~is_series(t, t.columns[i])
         THEN [store |-> st, ret |-> Raise("AttributeError", FALSE)]
    ELSE IF all_nan(t, i)
         THEN store_columns(t, dbname, i + 1, st, -1)
    ELSE store_columns(t, dbname, i + 1, write_frame(st, t, i, dbname, 1),
                       flag_after_write(flag))

write_data(t, dbname, compatible_names, st) ==
    store_columns(rename_columns(t, compatible_names), dbname, 1, st, 1)

\* The result of the range query as get_data returns it: None when the query
\* returns no series, else the points in time order, one column per field, the
\* column named key renamed to key_old.
get_data(st, key_old, dbname, start_time, final_time, compatible_names) ==
    LET start_time_db == strftime(start_time)
        final_time_db == strftime(final_time)
        key == IF compatible_names THEN compatible_names_read(key_old) ELSE key_old
        times == points_in_range(st, dbname, key,
                                 to_datetime(start_time_db), to_datetime(final_time_db))
        fields == field_keys(st, dbname, key)
        index == sorted(times)
        column(f) == [r \in 1..Len(index) |->
                        LET p == st[<<dbname, key, index[r]>>] IN
                        IF f \in DOMAIN p THEN p[f] ELSE None]
        back(f) == IF compatible_names /\ f = key THEN key_old ELSE f
    IN  IF ~is_identifier(key) THEN Raise("InfluxDBClientError", FALSE)
        ELSE IF times = {} THEN [kind |-> "None"]
        ELSE [kind |-> "frame", index |-> index,
              columns |-> {back(f) : f \in fields},
              data |-> [c \in {back(f) : f \in fields} |->
                           column(CHOOSE f \in fields : back(f) = c)]]

\* get_data changes nothing: a call made after it reaches what the same call
\* reaches before it, so no call follows a get_data.
WriteData ==
    /\ call.op # "get_data"
    /\ \E dbname \in Databases, compatible_names \in BOOLEAN :
        LET done == write_data(df, dbname, compatible_names, store) IN
        /\ call' = [op |-> "write_data", dbname |-> dbname,
                    compatible_names |-> compatible_names]
        /\ wrote' = [op |-> "write_data", df |-> df, dbname |-> dbname,
                     compatible_names |-> compatible_names]
        /\ df' = rename_columns(df, compatible_names)
        /\ store' = done.store
        /\ ret' = done.ret
        /\ UNCHANGED <<sent, access, db_list>>

GetData ==
    /\ call.op # "get_data"
    /\ \E key \in ColumnNames, dbname \in Databases, compatible_names \in BOOLEAN,
       start_time \in 0..(MaxRows + 1), final_time \in 0..(MaxRows + 1) :
        /\ start_time <= final_time
        /\ call' = [op |-> "get_data", key |-> key, dbname |-> dbname,
                    start_time |-> start_time, final_time |-> final_time,
                    compatible_names |-> compatible_names]
        /\ ret' = get_data(store, key, dbname, start_time, final_time, compatible_names)
    /\ UNCHANGED <<df, store, sent, wrote, access, db_list>>

\* Row r is stamped r.
Indexes == {[r \in 1..n |-> r] : n \in 1..MaxRows}

\* Bulk writes: tables of several columns and two rows, a value or none in
\* each cell, so that a column is whole, partly missing or all missing.
InitBulk ==
    /\ df \in Tables(ColumnNames, MaxCols, {<<1, 2>>}, {Num(1), NaN})
    /\ store = NoStore /\ sent = <<>> /\ access = NoAccess /\ db_list = NoDatabases
    /\ call = NoCall /\ wrote = NoCall
    /\ ret = NoRet

NextBulk == WriteData

SpecBulk == InitBulk /\ [][NextBulk]_vars

\* Round trips of one series: tables of one column.
InitSeries ==
    /\ df \in Tables(ColumnNames, 1, Indexes, {Num(1), Num(2), NaN})
    /\ store = NoStore /\ sent = <<>> /\ access = NoAccess /\ db_list = NoDatabases
    /\ call = NoCall /\ wrote = NoCall
    /\ ret = NoRet

NextSeries == WriteData \/ GetData

SpecSeries == InitSeries /\ [][NextSeries]_vars


\* The rows of the one column of table t that hold a value.
ValueRows(t) == {r \in 1..Len(t.index) : IsNum(t.data[1][r])}

\* A get_data that follows a write_data of a one-column table holding a value,
\* both with the name conversion on, for the column's name as the caller wrote
\* it, the same database and a range that covers the table's timestamps.
ReadsBackSeries ==
    /\ call.op = "get_data" /\ wrote.op = "write_data"
    /\ call.compatible_names /\ wrote.compatible_names
    /\ Len(wrote.df.columns) = 1
    /\ call.key = wrote.df.columns[1]
    /\ call.dbname = wrote.dbname
    /\ ValueRows(wrote.df) # {}
    /\ \A r \in 1..Len(wrote.df.index) :
        call.start_time <= wrote.df.index[r] /\ wrote.df.index[r] <= call.final_time

\* The result holds the written values at their timestamps under the name key.
HoldsSeries(t, key) ==
    /\ ret.kind = "frame"
    /\ key \in ret.columns
    /\ \A r \in ValueRows(t) :
        \E q \in 1..Len(ret.index) :
            ret.index[q] = t.index[r] /\ ret.data[key][q] = t.data[1][r]

\* C1: a one-column table written and read back over its range, conversion on
\* both times, comes back with its values under the caller-facing name, for
\* every name, those with '-', '#', '/' or a space included.
SeriesRoundTrip ==
    ReadsBackSeries => HoldsSeries(wrote.df, call.key)

\* The round trip of C1 for the names that hold no space.
SeriesRoundTripWithoutSpace ==
    (ReadsBackSeries /\ \A i \in 1..Len(call.key) : call.key[i] # " ")
        => HoldsSeries(wrote.df, call.key)

\* The columns of table t that fail: those with no value in any row.
FailingColumns(t) == {i \in 1..Len(t.columns) : all_nan(t, i)}

\* Column i of table t is in the store as the measurement of its own name.
ColumnWritten(t, i, dbname) ==
    \A r \in 1..Len(t.index) :
        IsNum(t.data[i][r]) =>
            /\ <<dbname, t.columns[i], t.index[r]>> \in DOMAIN store
            /\ t.columns[i] \in DOMAIN store[<<dbname, t.columns[i], t.index[r]>>]
            /\ store[<<dbname, t.columns[i], t.index[r]>>][t.columns[i]] = t.data[i][r]

\* What C5 says of a write_data of table t (its columns named as stored).
BestEffort(t, dbname) ==
    /\ ret.kind = "flag"
    /\ ret.flag = (IF FailingColumns(t) # {} THEN -1 ELSE 1)
    /\ \A i \in 1..Len(t.columns) : i \notin FailingColumns(t) => ColumnWritten(t, i, dbname)

\* C5: write_data writes every column that holds a value as its own
\* measurement, wherever the all-missing columns stand, and returns -1 if and
\* only if some column is all missing, else 1; for every table.
BulkWriteBestEffort ==
    call.op = "write_data" => BestEffort(df, call.dbname)

\* The names of table t are pairwise distinct.
DistinctColumns(t) ==
    \A i, j \in 1..Len(t.columns) : i # j => t.columns[i] # t.columns[j]

\* C5 for the tables whose columns keep distinct names in the store.
BulkWriteBestEffortDistinct ==
    (call.op = "write_data" /\ DistinctColumns(df)) => BestEffort(df, call.dbname)

\* A table whose first column is all missing and whose second is not has been
\* written: the second column is stored and the flag is -1.
BulkWriteBestEffortWitness ==
    /\ call.op = "write_data" /\ DistinctColumns(df)
    /\ Len(df.columns) = 2
    /\ FailingColumns(df) = {1}
    /\ ret.kind = "flag" /\ ret.flag = -1
    /\ ColumnWritten(df, 2, call.dbname)


(***************************************************************************)
(* database_forecast.write_data and database_forecast.get_data.            *)
(***************************************************************************)
Hour == 2
MaxTime == 5
MaxHorizon == 3

\* cleaning.detect_likely_sample_rate: the spacings between consecutive
\* timestamps, the most frequent one and the number of distinct ones.
detect_likely_sample_rate(t) ==
    LET deltas == {t.index[r + 1] - t.index[r] : r \in 1..(Len(t.index) - 1)}
        count(d) == Cardinality({r \in 1..(Len(t.index) - 1) : t.index[r + 1] - t.index[r] = d})
    IN  [likely_sample_rate |-> CHOOSE d \in deltas : \A e \in deltas : count(d) >= count(e),
         num_sample_rates |-> Cardinality(deltas)]

\* strftime('%Y-%m-%d %H:00:00'): the time with minutes and seconds zeroed.
strftime_hour(t) == [datestr |-> (t \div Hour) * Hour]

\* df[key].values, row by row: the cell of the column named key, or, when
\* several columns have that name, the array of their cells in that row.
column_values(t, key) ==
    LET cols == {i \in DOMAIN t.columns : t.columns[i] = key} IN
    [r \in 1..Len(t.index) |->
        IF Cardinality(cols) = 1
        THEN t.data[CHOOSE i \in cols : TRUE][r]
        ELSE [array |-> [i \in cols |-> t.data[i][r]]]]

\* The fields of one record: '1', '2', ... for the values, and the two side fields.
forecast_fields(values, likely_sample_rate, start_time) ==
    [f \in {ToString(i) : i \in 1..Len(values)} \cup {"sample_rate", "start_time"} |->
        IF f = "sample_rate" THEN Num(likely_sample_rate)
        ELSE IF f = "start_time" THEN start_time
        ELSE values[CHOOSE i \in 1..Len(values) : ToString(i) = f]]

\* start_time: the issue time when none is given, else the first timestamp
\* less one sample interval.
start_time_of(t, time, likely_sample_rate) ==
    IF time = None
    THEN strftime_hour(t.index[1] - Hour)
    ELSE strftime(t.index[1] - likely_sample_rate)

\* The message: one record per column of the renamed table.
forecast_message(t, time, compatible_names) ==
    LET likely_sample_rate == detect_likely_sample_rate(t).likely_sample_rate
        time_db == IF time = None THEN strftime_hour(t.index[1] - Hour) ELSE time
        start_time == start_time_of(t, time, likely_sample_rate)
        renamed == rename_columns(t, compatible_names)
    IN  [i \in 1..Len(renamed.columns) |->
            [measurement |-> renamed.columns[i],
             time |-> time_db,
             fields |-> forecast_fields(column_values(renamed, renamed.columns[i]),
                                        likely_sample_rate, start_time)]]

\* A field value the line protocol can carry: not an array.
is_scalar(v) == DOMAIN v # {"array"}

\* InfluxDBClient.write_points: the records are written together, or the
\* request is refused when a field value is not a scalar.
RECURSIVE write_records(_, _, _, _)
write_records(st, dbname, message, i) ==
    IF i > Len(message) THEN st
    ELSE write_records(
            write_point(st, dbname, message[i].measurement,
                        to_datetime(message[i].time), message[i].fields),
            dbname, message, i + 1)

accepts(message) ==
    \A i \in 1..Len(message) : \A f \in DOMAIN message[i].fields :
        is_scalar(message[i].fields[f])

\* A slip: the message is sent before the sample rate is checked.
forecast_write_unchecked(t, dbname, time, compatible_names, st) ==
    LET message == forecast_message(t, time, compatible_names) IN
    IF accepts(message)
    THEN [store |-> write_records(st, dbname, message, 1), sent |-> message,
          df |-> rename_columns(t, compatible_names),
          ret |-> IF detect_likely_sample_rate(t).num_sample_rates > 1
                  THEN Raise("ValueError", FALSE) ELSE [kind |-> "None"]]
    ELSE [store |-> st, sent |-> message, df |-> rename_columns(t, compatible_names),
          ret |-> Raise("InfluxDBClientError", FALSE)]

\* database_forecast.write_data: the store, the message sent, the table and
\* the outcome after the call.
forecast_write_data(t, dbname, time, compatible_names, st) ==
    IF detect_likely_sample_rate(t).num_sample_rates > 1
    THEN [store |-> st, sent |-> <<>>, df |-> t, ret |-> Raise("ValueError", FALSE)]
    ELSE LET message == forecast_message(t, time, compatible_names) IN
         IF accepts(message)
         THEN [store |-> write_records(st, dbname, message, 1), sent |-> message,
               df |-> rename_columns(t, compatible_names), ret |-> [kind |-> "None"]]
         ELSE [store |-> st, sent |-> message, df |-> rename_columns(t, compatible_names),
               ret |-> Raise("InfluxDBClientError", FALSE)]

\* float(i) of a row label of the transposed points: the number a label
\* '1', '2', ... denotes, None for a label that is no number.
float_of(label) ==
    IF \E k \in 1..MaxHorizon : ToString(k) = label
    THEN Num(CHOOSE k \in 1..MaxHorizon : ToString(k) = label)
    ELSE None

\* A decoding that spaces the rows by an hour whatever the record's sample_rate.
forecast_get_data_hourly(st, key_old, dbname, time, compatible_names) ==
    LET time_db == strftime(to_datetime(time))
        key == IF compatible_names THEN compatible_names_read(key_old) ELSE key_old
        k == <<dbname, key, to_datetime(time_db)>>
        labels == field_keys(st, dbname, key) \cup {"time"}
        value(f) == IF f = "time" THEN time_db
                    ELSE IF f \in DOMAIN st[k] THEN st[k][f] ELSE None
        start_time == IF "start_time" \notin labels \/ value("start_time") = None
                      THEN to_datetime(time) ELSE to_datetime(value("start_time"))
        rows == {f \in labels : float_of(f) # None}
        stamp(f) == start_time + float_of(f).num * Hour
        index == sorted({stamp(f) : f \in rows})
        column == IF rows = {} THEN {} ELSE {key_old}
    IN  IF ~is_identifier(key) THEN Raise("InfluxDBClientError", FALSE)
        ELSE IF k \notin DOMAIN st
             THEN [kind |-> "frame", index |-> <<>>, columns |-> {}, data |-> <<>>]
        ELSE [kind |-> "frame", index |-> index, columns |-> column,
              data |-> [c \in column |->
                          [q \in 1..Len(index) |->
                              value(CHOOSE f \in rows : stamp(f) = index[q])]]]

\* database_forecast.get_data.
forecast_get_data(st, key_old, dbname, time, compatible_names) ==
    LET time_db == strftime(to_datetime(time))
        key == IF compatible_names THEN compatible_names_read(key_old) ELSE key_old
        k == <<dbname, key, to_datetime(time_db)>>
        labels == field_keys(st, dbname, key) \cup {"time"}
        value(f) == IF f = "time" THEN time_db
                    ELSE IF f \in DOMAIN st[k] THEN st[k][f] ELSE None
        sample_rate == IF "sample_rate" \notin labels \/ ~IsNum(value("sample_rate"))
                       THEN Hour ELSE value("sample_rate").num
        start_time == IF "start_time" \notin labels \/ value("start_time") = None
                      THEN to_datetime(time) ELSE to_datetime(value("start_time"))
        rows == {f \in labels : float_of(f) # None}
        stamp(f) == start_time + float_of(f).num * sample_rate
        index == sorted({stamp(f) : f \in rows})
        column == IF rows = {} THEN {} ELSE {key_old}
    IN  IF ~is_identifier(key) THEN Raise("InfluxDBClientError", FALSE)
        ELSE IF k \notin DOMAIN st
             THEN [kind |-> "frame", index |-> <<>>, columns |-> {}, data |-> <<>>]
        ELSE [kind |-> "frame", index |-> index, columns |-> column,
              data |-> [c \in column |->
                          [q \in 1..Len(index) |->
                              value(CHOOSE f \in rows : stamp(f) = index[q])]]]


\* The names of the forecast tables' columns: two that the conversion makes
\* one, and one with a space.
ForecastNames == {<<"a", "a">>, <<"a", "#", "a">>, <<"a", " ", "a">>}

\* The increasing sequences of 2..MaxHorizon timestamps from the first hour on.
ForecastIndexes ==
    UNION {{x \in [1..n -> Hour..MaxTime] : \A r \in 1..(n - 1) : x[r] < x[r + 1]}
           : n \in 2..MaxHorizon}

\* Forecast tables: the value of column i in row r is 10 i + r.
ForecastTables ==
    {[columns |-> c, index |-> x,
      data |-> [i \in 1..Len(c) |-> [r \in 1..Len(x) |-> Num(10 * i + r)]]] :
        c \in DistinctSeqs(ForecastNames, MaxCols), x \in ForecastIndexes}

\* What earlier runs left in the store: nothing, or a record of two values
\* written before the side fields existed.
LegacyStores ==
    {NoStore,
     write_point(NoStore, "dhblum", <<"a", "a">>, 0, ("1" :> Num(7)) @@ ("2" :> Num(8)))}

\* The issue times a caller passes: none, or a formatted time.
IssueTimes == {None} \cup {strftime(t) : t \in 0..MaxTime}

InitForecast ==
    /\ df \in ForecastTables
    /\ store \in LegacyStores
    /\ sent = <<>> /\ access = NoAccess /\ db_list = NoDatabases
    /\ call = NoCall /\ wrote = NoCall
    /\ ret = NoRet

\* A run writes one forecast into the store the earlier runs left.
ForecastWrite ==
    /\ call.op = "none"
    /\ \E dbname \in Databases, time \in IssueTimes, compatible_names \in BOOLEAN :
        LET done == forecast_write_data(df, dbname, time, compatible_names, store) IN
        /\ call' = [op |-> "forecast_write_data", dbname |-> dbname, time |-> time,
                    compatible_names |-> compatible_names]
        /\ wrote' = [op |-> "forecast_write_data", df |-> df, dbname |-> dbname,
                     time |-> time, compatible_names |-> compatible_names,
                     store |-> store]
        /\ df' = done.df
        /\ store' = done.store
        /\ sent' = done.sent
        /\ ret' = done.ret
    /\ UNCHANGED <<access, db_list>>

ForecastRead ==
    /\ call.op # "forecast_get_data"
    /\ \E key \in ForecastNames, dbname \in Databases, time \in 0..MaxTime,
          compatible_names \in BOOLEAN :
        /\ call' = [op |-> "forecast_get_data", key |-> key, dbname |-> dbname,
                    time |-> strftime(time), compatible_names |-> compatible_names]
        /\ ret' = forecast_get_data(store, key, dbname, strftime(time), compatible_names)
    /\ UNCHANGED <<df, store, sent, wrote, access, db_list>>

NextForecast == ForecastWrite \/ ForecastRead

SpecForecast == InitForecast /\ [][NextForecast]_vars


\* The table of the last forecast write has one spacing between its timestamps.
EvenlySpaced(t) == detect_likely_sample_rate(t).num_sample_rates = 1

\* C4: a forecast write of a table with more than one distinct spacing raises
\* the sample-rate error, sends no record, and leaves the store as it was
\* before the call.
UnevenForecastRejected ==
    (call.op = "forecast_write_data" /\ ~EvenlySpaced(wrote.df)) =>
        /\ ret = Raise("ValueError", FALSE)
        /\ sent = <<>>
        /\ store = wrote.store

\* A table with spacings of one hour and of half an hour has been refused, in
\* front of a store that holds a record: the record is still all it holds.
UnevenForecastRejectedWitness ==
    /\ call.op = "forecast_write_data"
    /\ wrote.df.index = <<2, 4, 5>>
    /\ ret = Raise("ValueError", FALSE)
    /\ store # NoStore /\ store = wrote.store
    /\ sent = <<>>

\* A forecast read that follows a forecast write made without an issue time,
\* of an evenly spaced table, for one of its columns by its caller-facing name,
\* at the issue time the write used, conversion on both times.
ReadsBackForecast ==
    /\ call.op = "forecast_get_data" /\ wrote.op = "forecast_write_data"
    /\ wrote.time = None
    /\ call.compatible_names /\ wrote.compatible_names
    /\ EvenlySpaced(wrote.df)
    /\ \E i \in 1..Len(wrote.df.columns) : wrote.df.columns[i] = call.key
    /\ call.dbname = wrote.dbname
    /\ call.time = strftime_hour(wrote.df.index[1] - Hour)

\* The result has the timestamps of table t and the values of its column key.
HoldsForecast(t, key) ==
    /\ ret.kind = "frame"
    /\ ret.index = t.index
    /\ key \in ret.columns
    /\ ret.data[key] = t.data[CHOOSE i \in 1..Len(t.columns) : t.columns[i] = key]

\* The forecast round trip of C3, for every evenly spaced table.
ForecastRoundTripAnyTable ==
    ReadsBackForecast => HoldsForecast(wrote.df, call.key)

\* The write was into an empty store, of a table whose names hold no space
\* and stay distinct in the store.
PlainForecast ==
    /\ wrote.store = NoStore
    /\ DistinctColumns(rename_columns(wrote.df, TRUE))
    /\ \A i \in 1..Len(call.key) : call.key[i] # " "

\* C3: a forecast written without an issue time and read at the issue time
\* the write used (first timestamp less one hour, floored to the hour) comes
\* back with the timestamps and the values of the table, for every evenly
\* spaced table; stated for the tables whose names the two conversions treat
\* alike, written into an empty store.
ForecastRoundTrip ==
    (ReadsBackForecast /\ PlainForecast) => HoldsForecast(wrote.df, call.key)

\* The round trip of C3 for the tables spaced by one hour that start on the hour.
ForecastRoundTripHourly ==
    (/\ ReadsBackForecast /\ PlainForecast
     /\ detect_likely_sample_rate(wrote.df).likely_sample_rate = Hour
     /\ wrote.df.index[1] % Hour = 0)
        => HoldsForecast(wrote.df, call.key)

\* What C10 says of the message built from table t (as passed, before the
\* renaming) with issue time `time`.
ForecastMetadata(t, time) ==
    LET first == t.index[1]
        rate == detect_likely_sample_rate(t).likely_sample_rate
        issue == IF time = None THEN strftime_hour(first - Hour) ELSE time
    IN  /\ Len(sent) = Len(t.columns)
        /\ \A i \in 1..Len(sent) :
            /\ sent[i].time = issue
            /\ \A r \in 1..Len(t.index) :
                /\ ToString(r) \in DOMAIN sent[i].fields
                /\ sent[i].fields[ToString(r)] = t.data[i][r]
            /\ ~(ToString(Len(t.index) + 1) \in DOMAIN sent[i].fields)
            /\ sent[i].fields["start_time"] =
                  (IF time = None THEN issue ELSE strftime(first - rate))

\* C10: every record of one forecast write is keyed at the same issue time and
\* holds its column's values in fields '1'..'N' in time order; without an issue
\* time the records are keyed at the first timestamp less one hour floored to
\* the hour, and start_time is that time; with one they are keyed at it and
\* start_time is the first timestamp less one sample interval.
ForecastRecordMetadata ==
    (call.op = "forecast_write_data" /\ EvenlySpaced(wrote.df)) =>
        ForecastMetadata(wrote.df, wrote.time)

\* C10 for the tables whose columns keep distinct names in the store.
ForecastRecordMetadataDistinct ==
    (call.op = "forecast_write_data" /\ EvenlySpaced(wrote.df) /\ DistinctColumns(df)) =>
        ForecastMetadata(wrote.df, wrote.time)


\* The measurement a forecast read addresses, and the record it asks for.
ReadKey ==
    IF call.compatible_names THEN compatible_names_read(call.key) ELSE call.key

ReadRecord == <<call.dbname, ReadKey, to_datetime(call.time)>>

\* The numeric-named fields the record is returned with.
NumericFields ==
    {f \in field_keys(store, call.dbname, ReadKey) : float_of(f) # None}

\* A field of the record, null where the record has none.
FieldValue(f) ==
    IF f \in DOMAIN store[ReadRecord] THEN store[ReadRecord][f] ELSE None

\* The sample rate and the start time the decoding is to use: an hour and the
\* queried issue time where the record's field is absent or null.
DecodedRate ==
    IF FieldValue("sample_rate") = None THEN Hour ELSE FieldValue("sample_rate").num

DecodedStart ==
    IF FieldValue("start_time") = None THEN to_datetime(call.time)
    ELSE to_datetime(FieldValue("start_time"))

\* The result has one row per numeric-named field k, at start + k * rate, in
\* increasing order of timestamp.
Decoded ==
    /\ ret.kind = "frame"
    /\ Len(ret.index) = Cardinality(NumericFields)
    /\ {ret.index[q] : q \in 1..Len(ret.index)} =
           {DecodedStart + float_of(f).num * DecodedRate : f \in NumericFields}
    /\ \A q \in 1..(Len(ret.index) - 1) : ret.index[q] < ret.index[q + 1]

\* The result is a table without rows.
EmptyTable == ret.kind = "frame" /\ ret.index = <<>>

\* The decoding for every read that converts the name.  A name with a space
\* reaches the query unconverted and the store refuses the query before there
\* is a result to decode.
ForecastReadDecodingAnyName ==
    (call.op = "forecast_get_data" /\ call.compatible_names) =>
        IF ReadRecord \in DOMAIN store THEN Decoded ELSE EmptyTable

GenericNames == {<<"a", "a">>, <<"a", "-", "a">>}

GenericTimes == {0, 1}

\* The messages: every map from some of the field names to values, the empty
\* one included.  'name' is a field name like any other.
GenericMessages ==
    UNION {{m \in [F -> {Num(1), Num(2)}] : "name" \in F => m["name"] = Num(2)}
           : F \in SUBSET {"value", "name"}}

\* database_generic.write_data: one record with the fields of the message;
\* the store refuses a record without fields.
generic_write_data(st, name, dbname, time, message) ==
    LET time_db == strftime(to_datetime(time))
        json_body == [measurement |-> name, time |-> time_db,
                      fields |-> [f \in DOMAIN message |-> message[f]]]
    IN  IF DOMAIN json_body.fields = {}
        THEN [store |-> st, sent |-> <<json_body>>,
              ret |-> Raise("InfluxDBClientError", FALSE)]
        ELSE [store |-> write_records(st, dbname, <<json_body>>, 1),
              sent |-> <<json_body>>, ret |-> [kind |-> "None"]]

\* The dict built from the series: data['name'] first, then one entry per
\* column, which replaces it when a column is called 'name'.
generic_row(name, columns, value) ==
    [c \in columns \cup {"name"} |-> IF c \in columns THEN value[c] ELSE [str |-> name]]

\* database_generic.get_data: None when the result holds no series, else the
\* dict of the first row.
generic_get_data(st, name, dbname, time) ==
    LET time_db == strftime(to_datetime(time))
        k == <<dbname, name, to_datetime(time_db)>>
        columns == field_keys(st, dbname, name) \cup {"time"}
        value == [c \in columns |->
                    IF c = "time" THEN time_db
                    ELSE IF c \in DOMAIN st[k] THEN st[k][c] ELSE None]
    IN  IF ~is_identifier(name) THEN Raise("InfluxDBClientError", FALSE)
        ELSE IF k \notin DOMAIN st THEN [kind |-> "None"]
        ELSE [kind |-> "dict", data |-> generic_row(name, columns, value)]

InitGeneric ==
    /\ df = NoTable /\ store = NoStore /\ sent = <<>> /\ access = NoAccess /\ db_list = NoDatabases
    /\ call = NoCall /\ wrote = NoCall
    /\ ret = NoRet

\* get_data changes nothing, so no call follows it.
GenericWrite ==
    /\ call.op # "generic_get_data"
    /\ \E name \in GenericNames, dbname \in Databases, time \in GenericTimes,
          message \in GenericMessages :
        LET done == generic_write_data(store, name, dbname, strftime(time), message) IN
        /\ call' = [op |-> "generic_write_data", name |-> name, dbname |-> dbname,
                    time |-> strftime(time), message |-> message]
        /\ store' = done.store
        /\ sent' = done.sent
        /\ ret' = done.ret
    /\ UNCHANGED <<df, wrote, access, db_list>>

GenericRead ==
    /\ call.op # "generic_get_data"
    /\ \E name \in GenericNames, dbname \in Databases, time \in GenericTimes :
        /\ call' = [op |-> "generic_get_data", name |-> name, dbname |-> dbname,
                    time |-> strftime(time)]
        /\ ret' = generic_get_data(store, name, dbname, strftime(time))
    /\ UNCHANGED <<df, store, sent, wrote, access, db_list>>

NextGeneric == GenericWrite \/ GenericRead

SpecGeneric == InitGeneric /\ [][NextGeneric]_vars

\* What C7 says of a generic read: None when the store holds no record at the
\* name and time read, else a dict with the fields written there and a 'name'
\* entry that is the measurement name.
GenericOutcome ==
    LET k == <<call.dbname, call.name, to_datetime(call.time)>> IN
    IF k \notin DOMAIN store
    THEN ret = [kind |-> "None"]
    ELSE /\ ret.kind = "dict"
         /\ \A f \in DOMAIN store[k] : f \in DOMAIN ret.data /\ ret.data[f] = store[k][f]
         /\ "name" \in DOMAIN ret.data /\ ret.data["name"] = [str |-> call.name]

\* The generic read of C7, after any sequence of generic writes.
GenericReadAnyName ==
    call.op = "generic_get_data" => GenericOutcome

\* C7: after any sequence of generic writes, a generic read returns None when
\* no record was written at the name and time, else a dict with the fields
\* written there and a 'name' entry equal to the measurement name; stated for
\* the measurement names the query language reads unquoted.
GenericReadOutcome ==
    (call.op = "generic_get_data" /\ is_identifier(call.name)) => GenericOutcome

\* The entries other than 'name' of C7, and 'name' when no field of the
\* measurement is called so.
GenericReadOutcomeApart ==
    (call.op = "generic_get_data" /\ is_identifier(call.name)) =>
        LET k == <<call.dbname, call.name, to_datetime(call.time)>> IN
        IF k \notin DOMAIN store
        THEN ret = [kind |-> "None"]
        ELSE /\ ret.kind = "dict"
             /\ \A f \in DOMAIN store[k] : f \in DOMAIN ret.data /\ ret.data[f] = store[k][f]
             /\ "name" \notin field_keys(store, call.dbname, call.name)
                    => ret.data["name"] = [str |-> call.name]


(***************************************************************************)
(* database.create_database.                                               *)
(***************************************************************************)
MaxDatabases == 2

\* Database names: some hold another as a part ('b5' in 'b59'), some hold none.
DbNames ==
    {<<"b">>, <<"b", "5">>, <<"b", "5", "9">>, <<"5", "9">>, <<"9">>, <<"w">>}

\* Python's `a in b` for two strings: a is a substring of b.
in_str(a, b) ==
    \E i \in 0..(Len(b) - Len(a)) : SubSeq(b, i + 1, i + Len(a)) = a

\* The loop over db_list from its i-th entry on: 1 at the first entry whose
\* name holds dbname, else 0.
RECURSIVE exist_from(_, _, _)
exist_from(list, dbname, i) ==
    IF i > Len(list) THEN 0
    ELSE IF in_str(dbname, list[i]) THEN 1
    ELSE exist_from(list, dbname, i + 1)

\* client.create_database: CREATE DATABASE adds the name unless the server has it.
client_create_database(list, dbname) ==
    IF \E i \in 1..Len(list) : list[i] = dbname THEN list ELSE Append(list, dbname)

\* database.create_database: the server's databases after the call, and the flag.
create_database(list, dbname) ==
    IF exist_from(list, dbname, 1) = 1
    THEN [db_list |-> list, ret |-> [kind |-> "flag", flag |-> -1]]
    ELSE [db_list |-> client_create_database(list, dbname),
          ret |-> [kind |-> "flag", flag |-> 1]]

\* The server starts with up to MaxDatabases databases.
InitAdmin ==
    /\ db_list \in DistinctSeqs(DbNames, MaxDatabases) \cup {NoDatabases}
    /\ df = NoTable /\ store = NoStore /\ sent = <<>> /\ access = NoAccess
    /\ call = NoCall /\ wrote = NoCall
    /\ ret = NoRet

CreateDatabase ==
    /\ Len(db_list) <= MaxDatabases
    /\ \E dbname \in DbNames :
        LET done == create_database(db_list, dbname) IN
        /\ call' = [op |-> "create_database", dbname |-> dbname, db_list |-> db_list]
        /\ db_list' = done.db_list
        /\ ret' = done.ret
    /\ UNCHANGED <<df, store, sent, wrote, access>>

NextAdmin == CreateDatabase

SpecAdmin == InitAdmin /\ [][NextAdmin]_vars


\* A database named exactly dbname is in the list.
Exists(list, dbname) == \E i \in 1..Len(list) : list[i] = dbname

\* What C12 says of a call that found the databases `before`.
ExactCheckThenAct(before, dbname) ==
    /\ ret.kind = "flag"
    /\ ~Exists(before, dbname) =>
           ret.flag = 1 /\ db_list = Append(before, dbname)
    /\ Exists(before, dbname) =>
           ret.flag = -1 /\ db_list = before
    /\ Exists(db_list, dbname)

\* C12: create_database(name) creates the database and returns 1 exactly when
\* no existing database is named name, returns -1 and creates nothing exactly
\* when one is, and after the call a database named name exists.
CreateDatabaseExact ==
    call.op = "create_database" => ExactCheckThenAct(call.db_list, call.dbname)

\* C12 for the calls whose name is part of no other database's name.
CreateDatabaseExactApart ==
    (/\ call.op = "create_database"
     /\ \A i \in 1..Len(call.db_list) :
            in_str(call.dbname, call.db_list[i]) => call.db_list[i] = call.dbname)
        => ExactCheckThenAct(call.db_list, call.dbname)

\* A database has been created next to one of another name, and one has been
\* found under its own name.
CreateDatabaseExactApartWitness ==
    /\ call.op = "create_database"
    /\ call.dbname = <<"w">>
    /\ call.db_list = <<<<"b", "5", "9">>>>
    /\ db_list = <<<<"b", "5", "9">>, <<"w">>>>
    /\ ret.flag = 1


(***************************************************************************)
(* The caller's table after database.write_data and                        *)
(* database_forecast.write_data.                                           *)
(***************************************************************************)
\* The last call was a write that converts the names.
ConvertingWrite ==
    /\ call.op \in {"write_data", "forecast_write_data"}
    /\ call.compatible_names

\* C13: after a time-series write or a forecast write with the conversion on,
\* the column names of the table the caller passed in are the caller-facing
\* names it had before the call.
CallerTableUnchanged ==
    ConvertingWrite => df.columns = wrote.df.columns

\* The conversion leaves every column name of table t as it is.
PlainNames(t) ==
    \A i \in 1..Len(t.columns) : compatible_names_write(t.columns[i]) = t.columns[i]

\* C13 for the tables whose names the conversion leaves as they are; the
\* timestamps and the values are those of the table passed in after every write.
CallerTableUnchangedPlain ==
    call.op \in {"write_data", "forecast_write_data"} =>
        /\ df.index = wrote.df.index /\ df.data = wrote.df.data
        /\ (PlainNames(wrote.df) \/ ~call.compatible_names) => df = wrote.df

====
